---- MODULE Spec2Model ----
(***************************************************************************)
(* Model of mcp_server_zoom_noauth/server.py: the ZoomClient facade (four  *)
(* operations over blocking HTTP calls), the response normalizer and the   *)
(* tool dispatcher handle_call_tool.                                       *)
(*                                                                         *)
(* Python values are represented as follows.  str -> TLA+ string, None ->  *)
(* the value None below, a JSON value decoded by response.json() -> a      *)
(* tagged tree [t, ...], a dict built by the code itself -> a TLA+ record, a *)
(* raised exception -> a record [type, msg, request_exc, response_status]. *)
(* The text a tool call or a facade operation returns is [fmt, doc]: fmt   *)
(* is "json" for the output of json.dumps and "plain" for an f-string.     *)
(* A dict key of the arguments mapping is a sequence of tokens: the        *)
(* backtick, the colon and a blank are tokens of their own and every other *)
(* token is a maximal run of other characters, so that the dispatcher's    *)
(* substring tests and regular expressions can be computed.                *)
(***************************************************************************)
EXTENDS Integers, Sequences, FiniteSets, TLC

VARIABLES
    pc,         \* per call: position of the call in handle_call_tool / caller
    name,       \* per call: the tool name received
    arguments,  \* per call: the arguments value received
    zoom,       \* per call: the ZoomClient the call constructed (or NoClient)
    op,         \* per call: the facade operation in progress (its locals)
    requests,   \* per call: the HTTP requests issued so far, in order
    responses,  \* per call: how the upstream dealt with each of these requests
    reply,      \* per call: the content list the handler returned
    tz          \* the process's local UTC offset, as strftime('%z') prints it

vars == <<pc, name, arguments, zoom, op, requests, responses, reply, tz>>

(***************************************************************************)
(* Bounds of the model.                                                    *)
(***************************************************************************)
MaxFiles == 2      \* longest recording_files list the upstream returns
MaxLen == 2        \* longest list handed to the normalizer
MaxCalls == 2      \* tool calls the transport has in progress at a time

(***************************************************************************)
(* Python values.                                                          *)
(***************************************************************************)
None == "<None>"

Truthy(v) == v # None /\ v # ""

PyStr(v) == IF v = None THEN "None" ELSE v

JNull == [t |-> "null"]
JStr(s) == [t |-> "str", s |-> s]
JInt(n) == [t |-> "int", n |-> n]
JList(s) == [t |-> "list", items |-> s]
JDict(f) == [t |-> "dict", fields |-> f]
JDatetime(d) == [t |-> "datetime", d |-> d]
JTzlocal == [t |-> "tzlocal"]

DictHas(d, k) == k \in DOMAIN d.fields
DictGet(d, k, default) == IF DictHas(d, k) THEN d.fields[k] ELSE default

Ok(v) == [ok |-> TRUE, val |-> v]
Raise(e) == [ok |-> FALSE, exc |-> e]

Exception(type, msg) ==
    [type |-> type, msg |-> msg, request_exc |-> FALSE, response_status |-> 0]
\* a requests.exceptions.RequestException; status 0 stands for response None
RequestException(type, msg, status) ==
    [type |-> type, msg |-> msg, request_exc |-> TRUE, response_status |-> status]

ValueError(msg) == Exception("ValueError", msg)
TypeError(msg) == Exception("TypeError", msg)
KeyError(k) == Exception("KeyError", "'" \o k \o "'")

json_dumps(doc) == [fmt |-> "json", doc |-> doc]
PlainText(s) == [fmt |-> "plain", doc |-> s]

(***************************************************************************)
(* int(x) as the dispatcher applies it to page_size and page_number.       *)
(***************************************************************************)
IntLiteral(s) ==
    CASE s = "1000" -> Ok(1000)
      [] OTHER -> Raise(ValueError("invalid literal for int() with base 10: '" \o s \o "'"))

PyInt(x) ==
    CASE x.t = "int" -> Ok(x.n)
      [] x.t = "str" -> IntLiteral(x.s)
      [] OTHER -> Raise(TypeError("int() argument must be a string, a bytes-like object or a real number"))

(***************************************************************************)
(* Response normalizer.                                                    *)
(***************************************************************************)
Pad(n, width) ==
    LET s == ToString(n)
    IN  IF width = 4 /\ n < 10 THEN "000" \o s
        ELSE IF width = 4 /\ n < 100 THEN "00" \o s
        ELSE IF width = 4 /\ n < 1000 THEN "0" \o s
        ELSE IF width = 2 /\ n < 10 THEN "0" \o s
        ELSE s

\* datetime.isoformat() of a naive datetime [year, month, day, hour, minute, second]
isoformat(d) ==
    Pad(d.year, 4) \o "-" \o Pad(d.month, 2) \o "-" \o Pad(d.day, 2) \o "T"
        \o Pad(d.hour, 2) \o ":" \o Pad(d.minute, 2) \o ":" \o Pad(d.second, 2)

\* offset is <<sign, hh, mm>>, the parts of strftime('%z'): offset[:3] and offset[3:]
UtcOffsetString(offset) == "UTC" \o offset[1] \o offset[2] \o ":" \o offset[3]

\* the conversion of the value itself only, without the descent into
\* mappings and lists
convert_datetime_fields_flat(obj) ==
    CASE obj.t = "datetime" -> JStr(isoformat(obj.d))
      [] obj.t = "tzlocal" -> JStr(UtcOffsetString(tz))
      [] OTHER -> obj

RECURSIVE convert_datetime_fields(_)
convert_datetime_fields(obj) ==
    CASE obj.t = "dict" ->
            JDict([k \in DOMAIN obj.fields |-> convert_datetime_fields(obj.fields[k])])
      [] obj.t = "list" ->
            JList([i \in 1..Len(obj.items) |-> convert_datetime_fields(obj.items[i])])
      [] obj.t = "datetime" -> JStr(isoformat(obj.d))
      [] obj.t = "tzlocal" -> JStr(UtcOffsetString(tz))
      [] OTHER -> obj

(***************************************************************************)
(* ZoomClient.                                                             *)
(***************************************************************************)
NoClient == [exists |-> FALSE]

\* the constructor without its check
ZoomClientUnchecked(access_token, refresh_token, client_id, client_secret) ==
    Ok([exists |-> TRUE,
        access_token |-> access_token,
        refresh_token |-> refresh_token,
        client_id |-> client_id,
        client_secret |-> client_secret,
        base_url |-> "https://api.zoom.us/v2"])

ZoomClient(access_token, refresh_token, client_id, client_secret) ==
    IF ~Truthy(access_token) /\ ~Truthy(refresh_token)
    THEN Raise(ValueError("Either access_token or refresh_token must be provided"))
    ELSE Ok([exists |-> TRUE,
             access_token |-> access_token,
             refresh_token |-> refresh_token,
             client_id |-> client_id,
             client_secret |-> client_secret,
             base_url |-> "https://api.zoom.us/v2"])

\* the headers made from a client kept at module level: the first one any
\* call in progress constructed
_get_headers_shared(self) ==
    LET holders == {c \in DOMAIN zoom : zoom[c].exists}
    IN  IF holders = {} THEN "Bearer " \o PyStr(self.access_token)
        ELSE "Bearer " \o PyStr(zoom[CHOOSE c \in holders : \A d \in holders : c <= d].access_token)

_get_headers(self) == "Bearer " \o PyStr(self.access_token)

NoParams == [k \in {} |-> ""]

HttpRequest(method, url, authorization, params, data) ==
    [method |-> method, url |-> url, authorization |-> authorization,
     params |-> params, data |-> data]

\* base64.b64encode(s.encode()).decode(): an injective encoding of s
Base64(s) == "base64(" \o s \o ")"

(***************************************************************************)
(* A facade operation in progress: its name, where it stands, its          *)
(* parameters and locals, and what it returned (or raised).                *)
(***************************************************************************)
NoOp == [stage |-> "none"]

Frame(fn, stage, a) ==
    [fn |-> fn, stage |-> stage, a |-> a, data |-> JNull, files |-> <<>>,
     transcripts |-> <<>>, ret |-> PlainText("")]

Returned(f, text) == [f EXCEPT !.stage = "returned", !.ret = text]
Raised(f, e) == [f EXCEPT !.stage = "raised", !.ret = e]

\* how one step of an operation ends: the client, the frame, the request sent
Step(self, f, send) == [zoom |-> self, op |-> f, send |-> send]

\* the wrapper without its except clause
_handle_token_refresh_uncaught(r) == r

\* the outcome of func() to the text (or exception) the wrapper gives back
_handle_token_refresh(r) ==
    IF r.ok \/ ~r.exc.request_exc THEN r
    ELSE IF r.exc.response_status # 0
    THEN IF r.exc.response_status = 401
         THEN Ok(json_dumps([error |-> "Unauthorized. Token might be expired. Try refreshing your token.",
                             details |-> r.exc.msg]))
         ELSE Ok(json_dumps([error |-> "Zoom API error: " \o ToString(r.exc.response_status),
                             details |-> r.exc.msg]))
    ELSE Ok(json_dumps([error |-> "Request to Zoom API failed", details |-> r.exc.msg]))

\* the except Exception clause that closes each of the three resource operations
OuterCatch(r) == IF r.ok THEN r.val ELSE json_dumps([error |-> r.exc.msg])

(***************************************************************************)
(* refresh_access_token.                                                   *)
(***************************************************************************)
refresh_access_token_begin(self, client_id, client_secret) ==
    LET f == Frame("refresh_access_token", "start",
                   [client_id |-> client_id, client_secret |-> client_secret])
    IN  IF client_id = None
        THEN Step(self, Raised(f, TypeError("'NoneType' object is not subscriptable")), <<>>)
        ELSE IF ~Truthy(self.refresh_token)
        THEN Step(self,
                  Returned(f, json_dumps([error |-> "No refresh token provided",
                                          status |-> "error"])),
                  <<>>)
        ELSE Step([self EXCEPT !.client_id = client_id, !.client_secret = client_secret],
                  [f EXCEPT !.stage = "post_token"],
                  <<HttpRequest("POST", "https://zoom.us/oauth/token",
                                "Basic " \o Base64(client_id \o ":" \o PyStr(client_secret)),
                                NoParams,
                                [grant_type |-> "refresh_token",
                                 refresh_token |-> self.refresh_token])>>)

refresh_access_token_resume(self, f, outcome) ==
    LET caught(e) ==
            Step(self, Returned(f, json_dumps([error |-> e.msg, status |-> "error"])), <<>>)
    IN  IF ~outcome.ok THEN caught(outcome.exc)
        ELSE LET response == outcome.val
             IN  IF response.status_code = 200
                 THEN IF ~response.json.ok THEN caught(response.json.exc)
                      ELSE LET result == response.json.val
                           IN  IF "access_token" \notin DOMAIN result
                               THEN caught(KeyError("access_token"))
                               ELSE LET new_refresh ==
                                            IF "refresh_token" \in DOMAIN result
                                            THEN result["refresh_token"]
                                            ELSE self.refresh_token
                                        expires_in ==
                                            IF "expires_in" \in DOMAIN result
                                            THEN result["expires_in"]
                                            ELSE 3600
                                        self2 == [self EXCEPT
                                                    !.access_token = result["access_token"],
                                                    !.refresh_token = new_refresh]
                                    IN  Step(self2,
                                             Returned(f, json_dumps(
                                                [access_token |-> self2.access_token,
                                                 refresh_token |-> self2.refresh_token,
                                                 expires_at |-> <<"now+", expires_in>>,
                                                 expires_in |-> expires_in,
                                                 status |-> "success"])),
                                             <<>>)
                 ELSE Step(self,
                           Returned(f, json_dumps(
                              [error |-> "Failed to refresh token. Status code: "
                                            \o ToString(response.status_code),
                               details |-> response.text,
                               raw_response |-> response.text,
                               status |-> "error"])),
                           <<>>)

(***************************************************************************)
(* list_recordings.                                                        *)
(***************************************************************************)
Min(a, b) == IF a < b THEN a ELSE b

\* the query parameters with page_size passed on as it came
ListParamsUnclamped(from_date, to_date, page_size, page_number) ==
    LET keys == {"page_size", "page_number"}
                    \cup (IF Truthy(from_date) THEN {"from"} ELSE {})
                    \cup (IF Truthy(to_date) THEN {"to"} ELSE {})
    IN  [k \in keys |->
            CASE k = "page_size" -> JInt(page_size)
              [] k = "page_number" -> JInt(page_number)
              [] k = "from" -> JStr(from_date)
              [] k = "to" -> JStr(to_date)]

ListParams(from_date, to_date, page_size, page_number) ==
    LET keys == {"page_size", "page_number"}
                    \cup (IF Truthy(from_date) THEN {"from"} ELSE {})
                    \cup (IF Truthy(to_date) THEN {"to"} ELSE {})
    IN  [k \in keys |->
            CASE k = "page_size" -> JInt(Min(page_size, 300))
              [] k = "page_number" -> JInt(page_number)
              [] k = "from" -> JStr(from_date)
              [] k = "to" -> JStr(to_date)]

list_recordings_begin(self, from_date, to_date, page_size, page_number) ==
    Step(self,
         Frame("list_recordings", "get_recordings",
               [from_date |-> from_date, to_date |-> to_date,
                page_size |-> page_size, page_number |-> page_number]),
         <<HttpRequest("GET", self.base_url \o "/users/me/recordings", _get_headers(self),
                       ListParams(from_date, to_date, page_size, page_number), NoParams)>>)

\* what _operation makes of the response: the status check, then the decoding
ForwardResponse(outcome, what) ==
    IF ~outcome.ok THEN Raise(outcome.exc)
    ELSE LET response == outcome.val
         IN  IF response.status_code # 200
             THEN Ok(json_dumps([error |-> "Failed to retrieve " \o what \o ". Status code: "
                                              \o ToString(response.status_code),
                                 details |-> response.text,
                                 status |-> "error"]))
             ELSE IF ~response.json.ok THEN Raise(response.json.exc)
             ELSE Ok(json_dumps(convert_datetime_fields(response.json.val)))

list_recordings_resume(self, f, outcome) ==
    Step(self,
         Returned(f, OuterCatch(_handle_token_refresh(ForwardResponse(outcome, "recordings")))),
         <<>>)

(***************************************************************************)
(* get_recording_details.                                                  *)
(***************************************************************************)
get_recording_details_begin(self, meeting_id) ==
    Step(self,
         Frame("get_recording_details", "get_details", [meeting_id |-> meeting_id]),
         <<HttpRequest("GET", self.base_url \o "/meetings/" \o meeting_id \o "/recordings",
                       _get_headers(self), NoParams, NoParams)>>)

get_recording_details_resume(self, f, outcome) ==
    Step(self,
         Returned(f, OuterCatch(_handle_token_refresh(
                        ForwardResponse(outcome, "recording details")))),
         <<>>)

(***************************************************************************)
(* get_meeting_transcript.                                                 *)
(***************************************************************************)
\* the list comprehension without its condition
TranscriptFilesUnfiltered(files) == files

\* [file for file in files if file.get("file_type") == "TRANSCRIPT"]
TranscriptFiles(files) ==
    SelectSeq(files, LAMBDA file : DictGet(file, "file_type", JNull) = JStr("TRANSCRIPT"))

\* the files of the loop that are still to be visited once those in front
\* that carry no download_url have been passed over
RECURSIVE SkipNoUrl(_)
SkipNoUrl(files) ==
    IF files = <<>> \/ DictHas(Head(files), "download_url") THEN files
    ELSE SkipNoUrl(Tail(files))

TranscriptEntry(file, response) ==
    JDict([file_id |-> DictGet(file, "id", JStr("")),
           file_name |-> DictGet(file, "file_name", JStr("")),
           recording_start |-> DictGet(file, "recording_start", JStr("")),
           recording_end |-> DictGet(file, "recording_end", JStr("")),
           content |-> JStr(response.text)])

TranscriptResult(f) ==
    json_dumps([meeting_id |-> f.a.meeting_id,
                topic |-> DictGet(f.data, "topic", JStr("")),
                meeting_duration |-> DictGet(f.data, "duration", JInt(0)),
                transcripts |-> convert_datetime_fields(JList(f.transcripts)),
                status |-> "success"])

\* the for loop from the file at the head of files on: the next download
\* request, or the result when no file with a download_url is left
TranscriptLoop(self, f, files) ==
    LET rest == SkipNoUrl(files)
    IN  IF rest = <<>>
        THEN Step(self, Returned([f EXCEPT !.files = <<>>], TranscriptResult(f)), <<>>)
        ELSE Step(self,
                  [f EXCEPT !.stage = "get_download", !.files = rest],
                  <<HttpRequest("GET", Head(rest).fields["download_url"].s, _get_headers(self),
                                NoParams, NoParams)>>)

\* an exception out of _operation: through _handle_token_refresh, then the except clause
TranscriptRaised(self, f, e) ==
    Step(self, Returned(f, OuterCatch(_handle_token_refresh(Raise(e)))), <<>>)

get_meeting_transcript_begin(self, meeting_id) ==
    Step(self,
         Frame("get_meeting_transcript", "get_meeting", [meeting_id |-> meeting_id]),
         <<HttpRequest("GET", self.base_url \o "/meetings/" \o meeting_id \o "/recordings",
                       _get_headers(self), NoParams, NoParams)>>)

\* the first GET has been answered
get_meeting_transcript_recordings(self, f, outcome) ==
    IF ~outcome.ok THEN TranscriptRaised(self, f, outcome.exc)
    ELSE LET recordings_response == outcome.val
         IN  IF recordings_response.status_code # 200
             THEN Step(self,
                       Returned(f, json_dumps(
                          [error |-> "Failed to retrieve recording information. Status code: "
                                        \o ToString(recordings_response.status_code),
                           details |-> recordings_response.text,
                           status |-> "error"])),
                       <<>>)
             ELSE IF ~recordings_response.json.ok
             THEN TranscriptRaised(self, f, recordings_response.json.exc)
             ELSE LET recordings_data == recordings_response.json.val
                      transcript_files ==
                          IF DictHas(recordings_data, "recording_files")
                          THEN TranscriptFiles(recordings_data.fields["recording_files"].items)
                          ELSE <<>>
                  IN  IF transcript_files = <<>>
                      THEN Step(self,
                                Returned(f, json_dumps(
                                   [error |-> "No transcript files found for this meeting",
                                    status |-> "error"])),
                                <<>>)
                      ELSE TranscriptLoop(self, [f EXCEPT !.data = recordings_data],
                                          transcript_files)

\* the loop with a download that is sent again when it is answered by
\* anything but 200
get_meeting_transcript_download_retry(self, f, outcome) ==
    IF ~outcome.ok THEN TranscriptRaised(self, f, outcome.exc)
    ELSE IF outcome.val.status_code # 200
    THEN Step(self, f,
              <<HttpRequest("GET", Head(f.files).fields["download_url"].s, _get_headers(self),
                            NoParams, NoParams)>>)
    ELSE TranscriptLoop(self,
                        [f EXCEPT !.transcripts = Append(@, TranscriptEntry(Head(f.files), outcome.val))],
                        Tail(f.files))

\* the loop that keeps what a download returned whatever its status
get_meeting_transcript_download_any_status(self, f, outcome) ==
    IF ~outcome.ok THEN TranscriptRaised(self, f, outcome.exc)
    ELSE TranscriptLoop(self,
                        [f EXCEPT !.transcripts = Append(@, TranscriptEntry(Head(f.files), outcome.val))],
                        Tail(f.files))

\* a download GET has been answered
get_meeting_transcript_download(self, f, outcome) ==
    IF ~outcome.ok THEN TranscriptRaised(self, f, outcome.exc)
    ELSE LET transcript_response == outcome.val
             file == Head(f.files)
             f2 == IF transcript_response.status_code = 200
                   THEN [f EXCEPT !.transcripts =
                            Append(@, TranscriptEntry(file, transcript_response))]
                   ELSE f
         IN  TranscriptLoop(self, f2, Tail(f.files))

get_meeting_transcript_resume(self, f, outcome) ==
    IF f.stage = "get_meeting" THEN get_meeting_transcript_recordings(self, f, outcome)
    ELSE get_meeting_transcript_download(self, f, outcome)

(***************************************************************************)
(* The dispatcher: argument repair (the single collapsed key).             *)
(***************************************************************************)
\* the token that stands for the backtick character
BT == "<backtick>"

IsSpace(t) == t = " "

RECURSIVE Join(_)
Join(tokens) == IF tokens = <<>> THEN "" ELSE Head(tokens) \o Join(Tail(tokens))

\* sub in key, both token sequences
Contains(key, sub) ==
    \E i \in 1..(Len(key) - Len(sub) + 1) : SubSeq(key, i, i + Len(sub) - 1) = sub

\* \s*: the first index from the given one on whose token is no blank,
\* Len(key) + 1 if there is none
FirstNonSpace(key, from) ==
    CHOOSE j \in from..(Len(key) + 1) :
        /\ \A m \in from..(j - 1) : IsSpace(key[m])
        /\ j = Len(key) + 1 \/ ~IsSpace(key[j])

\* [^...]+: the first index from the given one on whose token is a backtick,
\* Len(key) + 1 if there is none
FirstBacktick(key, from) ==
    CHOOSE j \in from..(Len(key) + 1) :
        /\ \A m \in from..(j - 1) : key[m] # BT
        /\ j = Len(key) + 1 \/ key[j] = BT

\* the regular expression of lines 435-437 (backtick, field, backtick, colon,
\* blanks, backtick, one or more characters other than a backtick, backtick)
\* matched at token i: the index where the match ends, 0 when it does not match
MatchEnd(key, field, i) ==
    IF ~(i + 3 <= Len(key) /\ key[i] = BT /\ key[i + 1] = field /\ key[i + 2] = BT
            /\ key[i + 3] = ":")
    THEN 0
    ELSE LET open == FirstNonSpace(key, i + 4)
         IN  IF ~(open <= Len(key) /\ key[open] = BT) THEN 0
             ELSE LET close == FirstBacktick(key, open + 1)
                  IN  IF close <= Len(key) /\ close > open + 1 THEN close ELSE 0

\* re.search(...): group(1) of the leftmost match, None when there is none
re_search_group(field, key) ==
    LET hits == {i \in 1..Len(key) : MatchEnd(key, field, i) # 0}
    IN  IF hits = {} THEN None
        ELSE LET i == CHOOSE h \in hits : \A g \in hits : h <= g
                 open == FirstNonSpace(key, i + 4)
             IN  Join(SubSeq(key, open + 1, MatchEnd(key, field, i) - 1))

Key(k) == <<k>>

ArgGet(kv, k, default) == IF Key(k) \in DOMAIN kv THEN kv[Key(k)] ELSE default

\* the handler without the repair of lines 424-455
RepairArgumentsNever(tool, kv) == kv

\* lines 424-455: the arguments the rest of the handler works on
RepairArguments(tool, kv) ==
    IF tool = "zoom_refresh_token" /\ Cardinality(DOMAIN kv) = 1
    THEN LET key == CHOOSE k \in DOMAIN kv : TRUE
         IN  IF /\ Contains(key, <<BT, "zoom_refresh_token", BT>>)
                /\ Contains(key, <<BT, "zoom_client_id", BT>>)
                /\ Contains(key, <<BT, "zoom_client_secret", BT>>)
             THEN LET refresh_token == re_search_group("zoom_refresh_token", key)
                      client_id == re_search_group("zoom_client_id", key)
                      client_secret == re_search_group("zoom_client_secret", key)
                  IN  IF refresh_token # None /\ client_id # None /\ client_secret # None
                      THEN [k \in {Key("zoom_refresh_token"), Key("zoom_client_id"),
                                   Key("zoom_client_secret")} |->
                               CASE k = Key("zoom_refresh_token") -> refresh_token
                                 [] k = Key("zoom_client_id") -> client_id
                                 [] k = Key("zoom_client_secret") -> client_secret]
                      ELSE kv
             ELSE kv
    ELSE kv

(***************************************************************************)
(* The dispatcher: everything handle_call_tool does before it invokes the  *)
(* facade operation.  The result is the client it constructed on the way   *)
(* (NoClient if none) and either the invocation to make or the exception   *)
(* raised.                                                                 *)
(***************************************************************************)
Checked(client, r) == [zoom |-> client, r |-> r]

Invocation(fn, a) == [fn |-> fn, a |-> a]

ValidateRefresh(kv) ==
    LET refresh_token == ArgGet(kv, "zoom_refresh_token", None)
        client_id == ArgGet(kv, "zoom_client_id", None)
        client_secret == ArgGet(kv, "zoom_client_secret", None)
        access_token == ArgGet(kv, "zoom_access_token", None)
        made == ZoomClient(access_token, refresh_token, None, None)
    IN  IF ~Truthy(refresh_token)
        THEN Checked(NoClient, Raise(ValueError("zoom_refresh_token is required for token refresh")))
        ELSE IF ~Truthy(client_id) \/ ~Truthy(client_secret)
        THEN Checked(NoClient, Raise(ValueError(
                "Both zoom_client_id and zoom_client_secret are required for token refresh")))
        ELSE IF ~made.ok THEN Checked(NoClient, Raise(made.exc))
        ELSE Checked(made.val,
                     Ok(Invocation("refresh_access_token",
                                   [client_id |-> client_id, client_secret |-> client_secret])))

ValidateListRecordings(kv, access_token) ==
    LET made == ZoomClient(access_token, None, None, None)
        page_size == PyInt(ArgGet(kv, "page_size", JInt(30)))
        page_number == PyInt(ArgGet(kv, "page_number", JInt(1)))
    IN  IF ~made.ok THEN Checked(NoClient, Raise(made.exc))
        ELSE IF ~page_size.ok THEN Checked(made.val, Raise(page_size.exc))
        ELSE IF ~page_number.ok THEN Checked(made.val, Raise(page_number.exc))
        ELSE Checked(made.val,
                     Ok(Invocation("list_recordings",
                                   [from_date |-> ArgGet(kv, "from_date", None),
                                    to_date |-> ArgGet(kv, "to_date", None),
                                    page_size |-> page_size.val,
                                    page_number |-> page_number.val])))

\* the handler without the meeting_id check
ValidateMeetingUnchecked(kv, access_token, fn) ==
    LET made == ZoomClient(access_token, None, None, None)
    IN  IF ~made.ok THEN Checked(NoClient, Raise(made.exc))
        ELSE Checked(made.val,
                     Ok(Invocation(fn, [meeting_id |-> ArgGet(kv, "meeting_id", None)])))

ValidateMeeting(kv, access_token, fn) ==
    LET made == ZoomClient(access_token, None, None, None)
        meeting_id == ArgGet(kv, "meeting_id", None)
    IN  IF ~made.ok THEN Checked(NoClient, Raise(made.exc))
        ELSE IF ~Truthy(meeting_id)
        THEN Checked(made.val, Raise(ValueError("meeting_id is required")))
        ELSE Checked(made.val, Ok(Invocation(fn, [meeting_id |-> meeting_id])))

ValidateOther(tool, kv) ==
    LET access_token == ArgGet(kv, "zoom_access_token", None)
    IN  IF ~Truthy(access_token)
        THEN Checked(NoClient, Raise(ValueError("zoom_access_token is required")))
        ELSE IF tool = "zoom_list_recordings" THEN ValidateListRecordings(kv, access_token)
        ELSE IF tool = "zoom_get_recording_details"
        THEN ValidateMeeting(kv, access_token, "get_recording_details")
        ELSE IF tool = "zoom_get_meeting_transcript"
        THEN ValidateMeeting(kv, access_token, "get_meeting_transcript")
        ELSE Checked(NoClient, Raise(ValueError("Unknown tool: " \o tool)))

\* args is [given, kv]: given is FALSE for None
Validate(tool, args) ==
    IF ~args.given \/ DOMAIN args.kv = {}
    THEN Checked(NoClient, Raise(ValueError("Missing arguments for " \o tool)))
    ELSE LET kv == RepairArguments(tool, args.kv)
         IN  IF tool = "zoom_refresh_token" THEN ValidateRefresh(kv)
             ELSE ValidateOther(tool, kv)

TextContent(text) == [type |-> "text", text |-> text]

\* handle_call_tool without its outer except clause
ErrorReplyUncaught(e) == Raise(e)

\* the except clauses at lines 519-521 and 554-555
ErrorReply(e) == Ok(<<TextContent(PlainText("Error: " \o e.msg))>>)

\* the handler passes on str() of what the operation built, not the JSON text
ResultReplyAsText(f) == Ok(<<TextContent(PlainText(f.ret))>>)

\* lines 484-491 and 518, 535, 549: the reply made of what the operation
\* returned, or of the exception refresh_access_token raised
ResultReply(f) ==
    IF f.stage = "returned" THEN Ok(<<TextContent(f.ret)>>)
    ELSE IF f.fn = "refresh_access_token"
    THEN Ok(<<TextContent(json_dumps([error |-> f.ret.msg, status |-> "error"]))>>)
    ELSE ErrorReply(f.ret)

(***************************************************************************)
(* Inputs: tool names and arguments values a client can send.  String      *)
(* fields are absent, empty or a string; page_size and page_number are     *)
(* absent, null, an integer or a string.                                   *)
(***************************************************************************)
ToolNames == {"zoom_refresh_token", "zoom_list_recordings",
              "zoom_get_recording_details", "zoom_get_meeting_transcript"}

Names == ToolNames \cup {"zoom_delete_recording"}

Absent == [t |-> "absent"]

\* the mapping of the entries <<key, present, value>> that are present
KV(entries) ==
    LET idx == {i \in 1..Len(entries) : entries[i][2]}
    IN  [k \in {Key(entries[i][1]) : i \in idx} |->
            entries[CHOOSE i \in idx : Key(entries[i][1]) = k][3]]

StrOpt(vals) == {None, ""} \cup vals

RefreshArgs ==
    {KV(<< <<"zoom_refresh_token", rt # None, rt>>, <<"zoom_client_id", cid # None, cid>>,
           <<"zoom_client_secret", cs # None, cs>>, <<"zoom_access_token", at # None, at>> >>) :
        rt \in StrOpt({"rt1"}), cid \in StrOpt({"id1"}), cs \in StrOpt({"sec1"}),
        at \in {None, "at1"}}

Pair(field, blanks, value) == <<BT, field, BT, ":">> \o blanks \o <<BT>> \o value \o <<BT>>

Sep == <<",", " ">>

KeyGood ==
    Pair("zoom_refresh_token", <<" ">>, <<"abc">>) \o Sep
        \o Pair("zoom_client_id", <<" ">>, <<"id1">>) \o Sep
        \o Pair("zoom_client_secret", <<" ">>, <<"sec1">>)

\* no blank after two colons, two after the third, another order, values of
\* several tokens, text around the pairs
KeyReordered ==
    <<"{">> \o Pair("zoom_client_id", <<>>, <<"id1">>) \o Sep
        \o Pair("zoom_client_secret", <<>>, <<"sec", ":", "1">>) \o Sep
        \o Pair("zoom_refresh_token", <<" ", " ">>, <<"a", " ", "b">>) \o <<"}">>

\* an empty value for the secret
KeyEmptySecret ==
    Pair("zoom_refresh_token", <<" ">>, <<"abc">>) \o Sep
        \o Pair("zoom_client_id", <<" ">>, <<"id1">>) \o Sep
        \o Pair("zoom_client_secret", <<" ">>, <<>>)

\* no colon after the client id
KeyNoColon ==
    Pair("zoom_refresh_token", <<" ">>, <<"abc">>) \o Sep
        \o <<BT, "zoom_client_id", BT, " ", BT, "id1", BT>> \o Sep
        \o Pair("zoom_client_secret", <<" ">>, <<"sec1">>)

\* the client secret is not named at all
KeyNoSecret ==
    Pair("zoom_refresh_token", <<" ">>, <<"abc">>) \o Sep
        \o Pair("zoom_client_id", <<" ">>, <<"id1">>)

\* the last value is not closed by a backtick
KeyUnclosed ==
    Pair("zoom_client_id", <<" ">>, <<"id1">>) \o Sep
        \o Pair("zoom_client_secret", <<" ">>, <<"sec1">>) \o Sep
        \o <<BT, "zoom_refresh_token", BT, ":", " ", BT, "abc">>

CollapsedKeys ==
    {KeyGood, KeyReordered, KeyEmptySecret, KeyNoColon, KeyNoSecret, KeyUnclosed}

CollapsedArgs == {[k \in {key} |-> v] : key \in CollapsedKeys, v \in {"", "x"}}

PageSizes == {-1, 1, 299, 300, 301, 1000}

PageSizeArgs ==
    {Absent, JNull, JStr("1000"), JStr("abc")} \cup {JInt(n) : n \in PageSizes}

PageNumberArgs == {Absent, JInt(2), JStr("two")}

ListArgs ==
    {KV(<< <<"zoom_access_token", at # None, at>>, <<"page_size", ps.t # "absent", ps>>,
           <<"page_number", pn.t # "absent", pn>>, <<"from_date", fd # None, fd>>,
           <<"to_date", td # None, td>> >>) :
        at \in StrOpt({"at1"}), ps \in PageSizeArgs, pn \in PageNumberArgs,
        fd \in {None, "2024-01-01"}, td \in StrOpt({"2024-01-31"})}

MeetingArgs ==
    {KV(<< <<"zoom_access_token", at # None, at>>, <<"meeting_id", mid # None, mid>> >>) :
        at \in StrOpt({"at1"}), mid \in StrOpt({"m1"})}

ArgsOf(tool) ==
    {[given |-> FALSE, kv |-> <<>>]} \cup
    {[given |-> TRUE, kv |-> kv] :
        kv \in CASE tool = "zoom_refresh_token" -> RefreshArgs \cup CollapsedArgs
                 [] tool = "zoom_list_recordings" -> ListArgs
                 [] OTHER -> MeetingArgs}

(***************************************************************************)
(* What the upstream can do with a request: answer it, or make the HTTP    *)
(* call raise.  A body that cannot be decoded makes response.json() raise  *)
(* an exception that is a RequestException in newer requests releases and  *)
(* a plain ValueError subclass in older ones.                              *)
(***************************************************************************)
Response(status_code, text, json) ==
    [status_code |-> status_code, text |-> text, json |-> json]

NetworkErrors ==
    {RequestException("ConnectionError", "Connection refused", 0),
     RequestException("TooManyRedirects", "Exceeded 30 redirects.", 302)}

DecodeErrors ==
    {RequestException("JSONDecodeError", "Expecting value: line 1 column 1 (char 0)", 0),
     Exception("JSONDecodeError", "Expecting value: line 1 column 1 (char 0)")}

FailStatuses == {204, 401, 500}

Failures ==
    {Raise(e) : e \in NetworkErrors} \cup
    {Ok(Response(s, "<body of " \o ToString(s) \o ">",
                 Raise(Exception("JSONDecodeError", "Expecting value: line 1 column 1 (char 0)")))) :
        s \in FailStatuses}

Undecodable == {Ok(Response(200, "<html>", Raise(e))) : e \in DecodeErrors}

TokenBodies ==
    {[access_token |-> "at2", refresh_token |-> "rt2", expires_in |-> 7200],
     [access_token |-> "at2", token_type |-> "bearer"],
     [refresh_token |-> "rt2", expires_in |-> 7200]}

TokenOutcomes ==
    Failures \cup Undecodable \cup {Ok(Response(200, "<token>", Ok(b))) : b \in TokenBodies}

RecordingsPayloads ==
    {JDict([total_records |-> JInt(0), meetings |-> JList(<<>>)]),
     JDict([total_records |-> JInt(1),
            meetings |-> JList(<<JDict([uuid |-> JStr("u1"),
                                        start_time |-> JStr("2024-01-02T03:04:05Z")])>>)])}

RecordingsOutcomes ==
    Failures \cup Undecodable
        \cup {Ok(Response(200, "<recordings>", Ok(p))) : p \in RecordingsPayloads}

FileKinds == {"transcript", "transcript without url", "video", "untyped"}

RecordingFile(i, kind) ==
    LET n == ToString(i)
        keys == {"id", "file_name", "recording_start", "recording_end"}
                    \cup (IF kind = "untyped" THEN {} ELSE {"file_type"})
                    \cup (IF kind = "transcript without url" THEN {} ELSE {"download_url"})
    IN  JDict([k \in keys |->
                CASE k = "id" -> JStr("f" \o n)
                  [] k = "file_name" -> JStr("file" \o n)
                  [] k = "recording_start" -> JStr("2024-01-02T03:04:05Z")
                  [] k = "recording_end" -> JStr("2024-01-02T04:04:05Z")
                  [] k = "file_type" -> JStr(IF kind = "video" THEN "MP4" ELSE "TRANSCRIPT")
                  [] k = "download_url" -> JStr("https://zoom.us/rec/download/f" \o n)])

FileLists ==
    UNION {{[i \in 1..n |-> RecordingFile(i, kinds[i])] : kinds \in [1..n -> FileKinds]} :
              n \in 0..MaxFiles}

MeetingPayloads ==
    {JDict([topic |-> JStr("weekly"), duration |-> JInt(45),
            recording_files |-> JList(files)]) : files \in FileLists}
        \cup {JDict([recording_files |-> JList(files)]) : files \in FileLists}
        \cup {JDict([topic |-> JStr("weekly"), duration |-> JInt(45)])}

MeetingOutcomes ==
    Failures \cup Undecodable \cup {Ok(Response(200, "<meeting>", Ok(p))) : p \in MeetingPayloads}

DownloadOutcomes ==
    Failures \cup {Ok(Response(200, "WEBVTT", Raise(CHOOSE e \in DecodeErrors : TRUE)))}

\* the outcomes of the request the operation is waiting on
Outcomes(f) ==
    CASE f.stage = "post_token" -> TokenOutcomes
      [] f.stage = "get_recordings" -> RecordingsOutcomes
      [] f.stage = "get_details" -> MeetingOutcomes
      [] f.stage = "get_meeting" -> MeetingOutcomes
      [] f.stage = "get_download" -> DownloadOutcomes
      [] OTHER -> {}

TzOffsets == {<<"+", "08", "00">>, <<"-", "05", "00">>}

(***************************************************************************)
(* The state machine.  A call is one invocation of handle_call_tool by the *)
(* transport (specification Spec) or one ZoomClient used directly by a     *)
(* caller (specification FacadeSpec).                                      *)
(***************************************************************************)
Calls == {1}

NoArguments == [given |-> FALSE, kv |-> <<>>]

Init ==
    /\ pc = [c \in Calls |-> "idle"]
    /\ name = [c \in Calls |-> ""]
    /\ arguments = [c \in Calls |-> NoArguments]
    /\ zoom = [c \in Calls |-> NoClient]
    /\ op = [c \in Calls |-> NoOp]
    /\ requests = [c \in Calls |-> <<>>]
    /\ responses = [c \in Calls |-> <<>>]
    /\ reply = [c \in Calls |-> <<>>]
    /\ tz \in TzOffsets

\* the operation a frame or an invocation names, begun on the client
Begin(self, inv) ==
    CASE inv.fn = "refresh_access_token" ->
            refresh_access_token_begin(self, inv.a.client_id, inv.a.client_secret)
      [] inv.fn = "list_recordings" ->
            list_recordings_begin(self, inv.a.from_date, inv.a.to_date,
                                  inv.a.page_size, inv.a.page_number)
      [] inv.fn = "get_recording_details" -> get_recording_details_begin(self, inv.a.meeting_id)
      [] inv.fn = "get_meeting_transcript" -> get_meeting_transcript_begin(self, inv.a.meeting_id)

Resume(self, f, outcome) ==
    CASE f.fn = "refresh_access_token" -> refresh_access_token_resume(self, f, outcome)
      [] f.fn = "list_recordings" -> list_recordings_resume(self, f, outcome)
      [] f.fn = "get_recording_details" -> get_recording_details_resume(self, f, outcome)
      [] f.fn = "get_meeting_transcript" -> get_meeting_transcript_resume(self, f, outcome)

Finished(f) == f.stage \in {"returned", "raised"}

\* handle_call_tool ends: it returns its content list, or an exception leaves it
Deliver(c, out) ==
    /\ pc' = [pc EXCEPT ![c] = IF out.ok THEN "replied" ELSE "faulted"]
    /\ reply' = [reply EXCEPT ![c] = IF out.ok THEN out.val ELSE <<>>]

\* the transport hands a tool call to handle_call_tool
Receive(c, tool, args) ==
    /\ pc[c] = "idle"
    /\ pc' = [pc EXCEPT ![c] = "received"]
    /\ name' = [name EXCEPT ![c] = tool]
    /\ arguments' = [arguments EXCEPT ![c] = args]
    /\ UNCHANGED <<zoom, op, requests, responses, reply, tz>>

\* lines 419-470, 495-512, 525-532, 539-546, 552: the checks, the client
ValidateCall(c) ==
    /\ pc[c] = "received"
    /\ LET checked == Validate(name[c], arguments[c])
       IN  /\ zoom' = [zoom EXCEPT ![c] = checked.zoom]
           /\ IF checked.r.ok
              THEN /\ pc' = [pc EXCEPT ![c] = "validated"]
                   /\ op' = [op EXCEPT ![c] = Frame(checked.r.val.fn, "call", checked.r.val.a)]
                   /\ UNCHANGED reply
              ELSE /\ Deliver(c, ErrorReply(checked.r.exc))
                   /\ UNCHANGED op
    /\ UNCHANGED <<name, arguments, requests, responses, tz>>

\* the handler calls the facade operation, which runs up to its first request
Execute(c) ==
    /\ pc[c] = "validated"
    /\ LET step == Begin(zoom[c], op[c])
       IN  /\ zoom' = [zoom EXCEPT ![c] = step.zoom]
           /\ op' = [op EXCEPT ![c] = step.op]
           /\ requests' = [requests EXCEPT ![c] = @ \o step.send]
    /\ pc' = [pc EXCEPT ![c] = "executing"]
    /\ UNCHANGED <<name, arguments, responses, reply, tz>>

\* the blocking HTTP call the operation is in ends: the operation runs on to
\* its next request or to its end
HttpRespond(c, outcome) ==
    /\ pc[c] \in {"executing", "calling"}
    /\ ~Finished(op[c])
    /\ outcome \in Outcomes(op[c])
    /\ LET step == Resume(zoom[c], op[c], outcome)
       IN  /\ zoom' = [zoom EXCEPT ![c] = step.zoom]
           /\ op' = [op EXCEPT ![c] = step.op]
           /\ requests' = [requests EXCEPT ![c] = @ \o step.send]
    /\ responses' = [responses EXCEPT ![c] = Append(@, outcome)]
    /\ UNCHANGED <<pc, name, arguments, reply, tz>>

\* the handler returns the single text segment
Reply(c) ==
    /\ pc[c] = "executing"
    /\ Finished(op[c])
    /\ Deliver(c, ResultReply(op[c]))
    /\ UNCHANGED <<name, arguments, zoom, op, requests, responses, tz>>

Next ==
    \E c \in Calls :
        \/ \E tool \in Names : \E args \in ArgsOf(tool) : Receive(c, tool, args)
        \/ ValidateCall(c)
        \/ Execute(c)
        \/ \E outcome \in Outcomes(op[c]) : HttpRespond(c, outcome)
        \/ Reply(c)

Spec == Init /\ [][Next]_vars

(***************************************************************************)
(* Direct use of the facade: a caller constructs a ZoomClient and calls    *)
(* its operations one after the other.                                     *)
(***************************************************************************)
DirectInvocations ==
    {Invocation("refresh_access_token", [client_id |-> cid, client_secret |-> cs]) :
        cid \in {None, "id1"}, cs \in {None, "sec1"}}
    \cup {Invocation("list_recordings",
                     [from_date |-> fd, to_date |-> None, page_size |-> ps, page_number |-> 1]) :
            fd \in {None, "2024-01-01"}, ps \in PageSizes \cup {30}}
    \cup {Invocation(fn, [meeting_id |-> "m1"]) :
            fn \in {"get_recording_details", "get_meeting_transcript"}}

Construct(c, access_token, refresh_token, client_id, client_secret) ==
    /\ pc[c] = "idle"
    /\ LET made == ZoomClient(access_token, refresh_token, client_id, client_secret)
       IN  IF made.ok
           THEN /\ zoom' = [zoom EXCEPT ![c] = made.val]
                /\ pc' = [pc EXCEPT ![c] = "constructed"]
                /\ UNCHANGED op
           ELSE /\ op' = [op EXCEPT ![c] =
                            Raised(Frame("__init__", "call",
                                         [access_token |-> access_token,
                                          refresh_token |-> refresh_token]), made.exc)]
                /\ pc' = [pc EXCEPT ![c] = "not constructed"]
                /\ UNCHANGED zoom
    /\ UNCHANGED <<name, arguments, requests, responses, reply, tz>>

\* the caller calls an operation of its client
Call(c, inv) ==
    /\ pc[c] = "constructed"
    /\ LET step == Begin(zoom[c], inv)
       IN  /\ zoom' = [zoom EXCEPT ![c] = step.zoom]
           /\ op' = [op EXCEPT ![c] = step.op]
           /\ requests' = [requests EXCEPT ![c] = step.send]
    /\ responses' = [responses EXCEPT ![c] = <<>>]
    /\ pc' = [pc EXCEPT ![c] = "calling"]
    /\ UNCHANGED <<name, arguments, reply, tz>>

\* the operation hands its result (or its exception) to the caller
Return(c) ==
    /\ pc[c] = "calling"
    /\ Finished(op[c])
    /\ pc' = [pc EXCEPT ![c] = "constructed"]
    /\ op' = [op EXCEPT ![c] = NoOp]
    /\ requests' = [requests EXCEPT ![c] = <<>>]
    /\ responses' = [responses EXCEPT ![c] = <<>>]
    /\ UNCHANGED <<name, arguments, zoom, reply, tz>>

FacadeNext ==
    \E c \in Calls :
        \/ \E at \in StrOpt({"at1"}), rt \in StrOpt({"rt1"}), cid \in {None, "id0"} :
                Construct(c, at, rt, cid, None)
        \/ \E inv \in DirectInvocations : Call(c, inv)
        \/ \E outcome \in Outcomes(op[c]) : HttpRespond(c, outcome)
        \/ Return(c)

FacadeSpec == Init /\ [][FacadeNext]_vars

(***************************************************************************)
(* Direct use of the normalizer: a caller hands convert_datetime_fields a  *)
(* value built from dicts, lists, scalars, datetime and tzlocal objects,   *)
(* and then hands it what it returned, any number of times.  The local UTC *)
(* offset line 37 reads may change between two calls.                      *)
(***************************************************************************)
Timestamps ==
    {[year |-> 2024, month |-> 1, day |-> 2, hour |-> 3, minute |-> 4, second |-> 5],
     [year |-> 987, month |-> 12, day |-> 31, hour |-> 23, minute |-> 59, second |-> 0]}

Scalars == {JNull, JInt(45), JStr("weekly"), JStr("2024-01-02T03:04:05")}

Leaves == Scalars \cup {JDatetime(d) : d \in Timestamps} \cup {JTzlocal}

FieldNames == {"start_time", "timezone"}

\* the lists of at most MaxLen items of S and the dicts over FieldNames with values in S
Containers(S) ==
    {JList(s) : s \in UNION {[1..n -> S] : n \in 0..MaxLen}}
        \cup {JDict(f) : f \in UNION {[K -> S] : K \in SUBSET FieldNames}}

\* containers of tzlocal objects, to be nested in others
Nested == Containers({JTzlocal})

NormalizerInputs ==
    Leaves
        \cup Containers(Leaves)
        \cup Containers(Nested \cup {JInt(45),
                                     JDatetime([year |-> 987, month |-> 12, day |-> 31,
                                                hour |-> 23, minute |-> 59, second |-> 0])})

\* convert_datetime_fields(obj) is called and returns
Normalize(c, obj) ==
    /\ pc[c] = "idle"
    /\ op' = [op EXCEPT ![c] =
                Returned(Frame("convert_datetime_fields", "call", [obj |-> obj]),
                         convert_datetime_fields(obj))]
    /\ pc' = [pc EXCEPT ![c] = "normalized"]
    /\ UNCHANGED <<name, arguments, zoom, requests, responses, reply, tz>>

\* convert_datetime_fields is called on what it returned last
Renormalize(c) ==
    /\ pc[c] \in {"normalized", "renormalized"}
    /\ op' = [op EXCEPT ![c] =
                Returned(Frame("convert_datetime_fields", "call", [obj |-> op[c].ret]),
                         convert_datetime_fields(op[c].ret))]
    /\ pc' = [pc EXCEPT ![c] = "renormalized"]
    /\ UNCHANGED <<name, arguments, zoom, requests, responses, reply, tz>>

\* the local UTC offset changes (daylight saving time, a new TZ setting)
ClockChange(offset) ==
    /\ offset # tz
    /\ tz' = offset
    /\ UNCHANGED <<pc, name, arguments, zoom, op, requests, responses, reply>>

NormalizerNext ==
    \/ \E c \in Calls :
        \/ \E obj \in NormalizerInputs : Normalize(c, obj)
        \/ Renormalize(c)
    \/ \E offset \in TzOffsets : ClockChange(offset)

NormalizerSpec == Init /\ [][NormalizerNext]_vars

(***************************************************************************)
(* Tool calls in progress at the same time: the transport hands several    *)
(* calls to handle_call_tool and their steps interleave at every point     *)
(* where a call can be suspended or preempted (between its checks and the  *)
(* operation, and at each HTTP call).  Each call carries credentials of    *)
(* its own.                                                                *)
(***************************************************************************)
Concurrent == 1..MaxCalls

Credential(c, kind) == kind \o "-of-call-" \o ToString(c)

ConcurrentTools == {"zoom_refresh_token", "zoom_list_recordings", "zoom_get_meeting_transcript"}

ConcurrentArgs(c, tool) ==
    [given |-> TRUE,
     kv |-> CASE tool = "zoom_refresh_token" ->
                    KV(<< <<"zoom_refresh_token", TRUE, Credential(c, "rt")>>,
                          <<"zoom_client_id", TRUE, Credential(c, "id")>>,
                          <<"zoom_client_secret", TRUE, Credential(c, "secret")>> >>)
              [] tool = "zoom_list_recordings" ->
                    KV(<< <<"zoom_access_token", TRUE, Credential(c, "at")>> >>)
              [] OTHER ->
                    KV(<< <<"zoom_access_token", TRUE, Credential(c, "at")>>,
                          <<"meeting_id", TRUE, "m1">> >>)]

\* the upstream's answers to concurrent calls: one success and one failure
\* for each kind of request
ConcurrentOutcomes(f) ==
    Outcomes(f) \cap
        {Ok(Response(200, "<token>",
                     Ok([access_token |-> "at2", refresh_token |-> "rt2", expires_in |-> 7200]))),
         Ok(Response(200, "<recordings>",
                     Ok(JDict([total_records |-> JInt(0), meetings |-> JList(<<>>)])))),
         Ok(Response(200, "<meeting>",
                     Ok(JDict([recording_files |-> JList(<<RecordingFile(1, "transcript")>>)])))),
         Ok(Response(200, "WEBVTT", Raise(CHOOSE e \in DecodeErrors : TRUE))),
         Ok(Response(401, "<body of 401>",
                     Raise(Exception("JSONDecodeError",
                                     "Expecting value: line 1 column 1 (char 0)"))))}

ConcurrentInit ==
    /\ pc = [c \in Concurrent |-> "idle"]
    /\ name = [c \in Concurrent |-> ""]
    /\ arguments = [c \in Concurrent |-> NoArguments]
    /\ zoom = [c \in Concurrent |-> NoClient]
    /\ op = [c \in Concurrent |-> NoOp]
    /\ requests = [c \in Concurrent |-> <<>>]
    /\ responses = [c \in Concurrent |-> <<>>]
    /\ reply = [c \in Concurrent |-> <<>>]
    /\ tz \in TzOffsets

ConcurrentNext ==
    \E c \in Concurrent :
        \/ \E tool \in ConcurrentTools : Receive(c, tool, ConcurrentArgs(c, tool))
        \/ ValidateCall(c)
        \/ Execute(c)
        \/ \E outcome \in ConcurrentOutcomes(op[c]) : HttpRespond(c, outcome)
        \/ Reply(c)

ConcurrentSpec == ConcurrentInit /\ [][ConcurrentNext]_vars

(***************************************************************************)
(* Properties.                                                             *)
(***************************************************************************)
Body(c) == reply[c][1].text

\* C1: whatever the tool name, the arguments and the upstream do, a call that
\* has ended returned a list of exactly one segment, of type text, and no
\* exception ever leaves handle_call_tool.
C1_ExactlyOneTextSegment ==
    \A c \in Calls :
        /\ pc[c] # "faulted"
        /\ pc[c] = "replied" => Len(reply[c]) = 1 /\ reply[c][1].type = "text"
        /\ pc[c] \in {"idle", "received", "validated", "executing"} => reply[c] = <<>>

\* a transcript call whose download raised has been answered
C1_Witness ==
    \E c \in Calls :
        /\ pc[c] = "replied"
        /\ name[c] = "zoom_get_meeting_transcript"
        /\ Len(responses[c]) = 2
        /\ ~responses[c][2].ok
        /\ Len(reply[c]) = 1

\* C2 as stated: the body of the segment of every reply is a JSON document.
C2_EveryBodyIsJson ==
    \A c \in Calls : pc[c] = "replied" => Body(c).fmt = "json"

\* C2 as amended: the body is a JSON document exactly when the handler got to
\* call the facade operation (whatever the operation returned, and also when
\* refresh_access_token raised); a call the handler ended before that
\* (missing arguments, missing required field, a page_size or page_number
\* int() rejects, unknown tool) is answered by the plain text "Error: "
\* followed by the message, which is not JSON.
C2_JsonIffOperationCalled ==
    \A c \in Calls :
        pc[c] = "replied" =>
            /\ Finished(op[c]) <=> Body(c).fmt = "json"
            /\ ~Finished(op[c]) <=> Body(c).fmt = "plain"
            /\ Finished(op[c]) => op[c].stage = "returned" /\ Body(c) = op[c].ret

\* a facade failure has been answered as a JSON error object
C2_Witness ==
    \E c \in Calls :
        /\ pc[c] = "replied"
        /\ Len(responses[c]) = 1
        /\ responses[c][1].ok
        /\ responses[c][1].val.status_code = 500
        /\ Body(c).fmt = "json"
        /\ Body(c).doc.status = "error"

\* the arguments the handler works on hold a non-empty value for the field
Supplied(c, field) ==
    /\ arguments[c].given
    /\ LET kv == RepairArguments(name[c], arguments[c].kv)
       IN  Key(field) \in DOMAIN kv /\ kv[Key(field)] \notin {None, ""}

RequiredFields(tool) ==
    CASE tool = "zoom_refresh_token" ->
            {"zoom_refresh_token", "zoom_client_id", "zoom_client_secret"}
      [] tool \in {"zoom_get_recording_details", "zoom_get_meeting_transcript"} ->
            {"zoom_access_token", "meeting_id"}
      [] OTHER -> {"zoom_access_token"}

PassesChecks(c) ==
    /\ arguments[c].given
    /\ DOMAIN arguments[c].kv # {}
    /\ \A field \in RequiredFields(name[c]) : Supplied(c, field)

PhaseStep(from, to) ==
    \/ from = to
    \/ <<from, to>> \in {<<"idle", "received">>, <<"received", "validated">>,
                         <<"received", "replied">>, <<"validated", "executing">>,
                         <<"executing", "replied">>}

\* C3: a call goes from RECEIVED to VALIDATED to EXECUTING to REPLIED and
\* never back, REPLIED is terminal, requests are issued in EXECUTING only and
\* only by calls whose arguments are present and hold every required field
\* of the tool; a call that fails one of these checks goes from RECEIVED to
\* REPLIED with an error reply and without any HTTP request.
C3_ValidationPrecedesExecution ==
    /\ [](\A c \in Calls :
            /\ requests[c] # <<>> => pc[c] \in {"executing", "replied"} /\ PassesChecks(c)
            /\ pc[c] \in {"validated", "executing"} => PassesChecks(c)
            /\ pc[c] = "replied" /\ ~PassesChecks(c) =>
                    /\ requests[c] = <<>>
                    /\ Len(reply[c]) = 1
                    /\ Body(c).fmt = "plain")
    /\ [][\A c \in Calls :
            /\ PhaseStep(pc[c], pc'[c])
            /\ requests'[c] # requests[c] => pc'[c] = "executing"
            /\ pc[c] = "replied" => reply'[c] = reply[c] /\ requests'[c] = requests[c]]_vars

\* a details call without meeting_id has been answered without any request
C3_Witness ==
    \E c \in Calls :
        /\ pc[c] = "replied"
        /\ name[c] = "zoom_get_recording_details"
        /\ Supplied(c, "zoom_access_token")
        /\ ~Supplied(c, "meeting_id")
        /\ requests[c] = <<>>

\* C4 as stated: a call that names none of the four tools is answered
\* "Unknown tool: " and the name, whatever its arguments are.
C4_UnknownToolAlwaysReported ==
    \A c \in Calls :
        pc[c] = "replied" /\ name[c] \notin ToolNames =>
            Body(c).doc = "Error: Unknown tool: " \o name[c]

ResourceOperations == {"list_recordings", "get_recording_details", "get_meeting_transcript"}

UnauthorizedLanguage(doc) ==
    doc.error = "Unauthorized. Token might be expired. Try refreshing your token."

Mentions401(doc) ==
    doc.error \in {"Failed to retrieve recordings. Status code: 401",
                   "Failed to retrieve recording details. Status code: 401",
                   "Failed to retrieve recording information. Status code: 401",
                   "Zoom API error: 401"}

\* C5 as stated: when the upstream answers 401 to the first GET of a resource
\* operation, the operation returns an error object that has the
\* "Unauthorized" wording and the status code 401.
C5_UnauthorizedOn401 ==
    \A c \in Calls :
        (/\ Finished(op[c])
         /\ op[c].fn \in ResourceOperations
         /\ responses[c][1].ok
         /\ responses[c][1].val.status_code = 401)
        => /\ op[c].stage = "returned"
           /\ op[c].ret.fmt = "json"
           /\ UnauthorizedLanguage(op[c].ret.doc)
           /\ Mentions401(op[c].ret.doc)

\* C6 as stated: refresh_access_token on a client without refresh token
\* returns an error object with status "error" and sends nothing, whatever
\* client_id and client_secret are (None included).
C6_NoRefreshTokenNoRequest ==
    \A c \in Calls :
        (/\ pc[c] = "calling"
         /\ Finished(op[c])
         /\ op[c].fn = "refresh_access_token"
         /\ zoom[c].refresh_token \in {None, ""})
        => /\ op[c].stage = "returned"
           /\ op[c].ret.fmt = "json"
           /\ op[c].ret.doc.status = "error"
           /\ requests[c] = <<>>

\* no file of the decoded body is typed TRANSCRIPT, or it has no file list
NoTranscriptEntry(data) ==
    "recording_files" \in DOMAIN data.fields =>
        \A i \in 1..Len(data.fields["recording_files"].items) :
            LET file == data.fields["recording_files"].items[i]
            IN  "file_type" \in DOMAIN file.fields => file.fields["file_type"].s # "TRANSCRIPT"

FirstGetFound(c) ==
    /\ op[c].stage # "none"
    /\ op[c].fn = "get_meeting_transcript"
    /\ Len(responses[c]) >= 1
    /\ responses[c][1].ok
    /\ responses[c][1].val.status_code = 200
    /\ responses[c][1].val.json.ok

\* C7: when the first GET of get_meeting_transcript is answered 200 with a
\* body that has no file typed TRANSCRIPT (or no file list at all), the
\* operation returns the "No transcript files found for this meeting" error
\* object and that GET is the only request it sent.
C7_NoTranscriptNoDownload ==
    \A c \in Calls :
        FirstGetFound(c) /\ NoTranscriptEntry(responses[c][1].val.json.val) =>
            /\ op[c].stage = "returned"
            /\ op[c].ret = json_dumps([error |-> "No transcript files found for this meeting",
                                       status |-> "error"])
            /\ Len(requests[c]) = 1
            /\ Len(responses[c]) = 1

\* a meeting whose files are all videos with a download URL
C7_Witness ==
    \E c \in Calls :
        /\ FirstGetFound(c)
        /\ NoTranscriptEntry(responses[c][1].val.json.val)
        /\ "recording_files" \in DOMAIN responses[c][1].val.json.val.fields
        /\ Len(responses[c][1].val.json.val.fields["recording_files"].items) = MaxFiles
        /\ op[c].stage = "returned"

\* the page size the tool call asks for: the integer sent, the integer the
\* decimal string "1000" spells, 30 when the call names none
AskedPageSize(c) ==
    LET kv == arguments[c].kv
    IN  IF Key("page_size") \notin DOMAIN kv THEN 30
        ELSE IF kv[Key("page_size")].t = "int" THEN kv[Key("page_size")].n
        ELSE 1000

\* C8: the page_size parameter list_recordings sends is the page size asked
\* for when that is at most 300 and 300 otherwise (1000 sends 300).
C8_PageSizeClamped ==
    \A c \in Calls :
        name[c] = "zoom_list_recordings" /\ requests[c] # <<>> =>
            LET sent == requests[c][1].params["page_size"].n
                asked == AskedPageSize(c)
            IN  /\ Len(requests[c]) = 1
                /\ sent <= 300
                /\ asked <= 300 => sent = asked
                /\ asked > 300 => sent = 300

\* a call that asks for 1000, as an integer or as a string, has sent 300
C8_Witness ==
    \E c \in Calls :
        /\ name[c] = "zoom_list_recordings"
        /\ requests[c] # <<>>
        /\ AskedPageSize(c) = 1000
        /\ requests[c][1].params["page_size"].n = 300

\* the three values a reader finds in the key: <<refresh token, client id,
\* client secret>>, or <<>> when the key does not hold all three pairs
ExpectedExtraction(key) ==
    CASE key = KeyGood -> <<"abc", "id1", "sec1">>
      [] key = KeyReordered -> <<"a b", "id1", "sec:1">>
      [] OTHER -> <<>>

SeparateArguments(e) ==
    [given |-> TRUE,
     kv |-> KV(<< <<"zoom_refresh_token", TRUE, e[1]>>, <<"zoom_client_id", TRUE, e[2]>>,
                  <<"zoom_client_secret", TRUE, e[3]>> >>)]

SingleKey(c) ==
    /\ name[c] = "zoom_refresh_token"
    /\ arguments[c].given
    /\ Cardinality(DOMAIN arguments[c].kv) = 1

\* C9: a zoom_refresh_token call with one argument key that holds the three
\* backtick-delimited pairs is validated to the same client and the same
\* invocation as the call with the three values as separate arguments, and
\* sends the token request those make; with any other single key it ends in
\* one of the two required-field errors without any HTTP request.
C9_CollapsedKeyRepaired ==
    \A c \in Calls :
        SingleKey(c) /\ pc[c] \notin {"idle", "received"} =>
            LET e == ExpectedExtraction(CHOOSE k \in DOMAIN arguments[c].kv : TRUE)
                separate == Validate(name[c], SeparateArguments(e))
            IN  IF e # <<>>
                THEN /\ separate.r.ok
                     /\ pc[c] = "validated" =>
                            /\ zoom[c] = separate.zoom
                            /\ op[c] = Frame(separate.r.val.fn, "call", separate.r.val.a)
                     /\ pc[c] = "replied" => Finished(op[c])
                     /\ pc[c] \in {"executing", "replied"} =>
                            /\ Len(requests[c]) = 1
                            /\ requests[c][1].method = "POST"
                            /\ requests[c][1].data.refresh_token = e[1]
                            /\ requests[c][1].authorization
                                    = "Basic " \o Base64(e[2] \o ":" \o e[3])
                ELSE /\ pc[c] = "replied"
                     /\ requests[c] = <<>>
                     /\ zoom[c] = NoClient
                     /\ Body(c).doc \in
                            {"Error: zoom_refresh_token is required for token refresh",
                             "Error: Both zoom_client_id and zoom_client_secret are required for token refresh"}

\* the reordered key with values of several tokens has led to a token request
C9_Witness ==
    \E c \in Calls :
        /\ SingleKey(c)
        /\ KeyReordered \in DOMAIN arguments[c].kv
        /\ pc[c] = "replied"
        /\ Len(requests[c]) = 1

RECURSIVE StructurePreserved(_, _)
StructurePreserved(x, y) ==
    CASE x.t = "dict" ->
            /\ y.t = "dict"
            /\ DOMAIN y.fields = DOMAIN x.fields
            /\ \A k \in DOMAIN x.fields : StructurePreserved(x.fields[k], y.fields[k])
      [] x.t = "list" ->
            /\ y.t = "list"
            /\ Len(y.items) = Len(x.items)
            /\ \A i \in 1..Len(x.items) : StructurePreserved(x.items[i], y.items[i])
      [] x.t \in {"datetime", "tzlocal"} -> y.t = "str"
      [] OTHER -> y.t = x.t /\ y = x

\* C11: convert_datetime_fields returns a value with the key sets, the list
\* lengths and order and the scalars of its argument and a string in place of
\* every datetime and every tzlocal object; applied to what it returned it
\* returns that value unchanged, also when the local UTC offset has changed
\* in between.
C11_NormalizerStructureIdempotent ==
    \A c \in Calls :
        /\ pc[c] = "normalized" =>
                /\ op[c].stage = "returned"
                /\ StructurePreserved(op[c].a.obj, op[c].ret)
        /\ pc[c] = "renormalized" =>
                /\ op[c].stage = "returned"
                /\ StructurePreserved(op[c].a.obj, op[c].ret)
                /\ op[c].ret = op[c].a.obj

\* a dict of a datetime and of a list with a tzlocal object has gone through
\* a second pass after the local offset changed from +08:00 to -05:00
C11_Witness ==
    \E c \in Calls :
        /\ pc[c] = "renormalized"
        /\ tz = <<"-", "05", "00">>
        /\ op[c].ret = JDict([start_time |-> JStr("0987-12-31T23:59:00"),
                              timezone |-> JList(<<JStr("UTC+08:00")>>)])

\* the operation begun on a client fed the responses one after the other:
\* the client, the frame and the requests it comes to
RECURSIVE Fed(_, _)
Fed(state, resps) ==
    IF resps = <<>> \/ Finished(state.op) THEN state
    ELSE LET step == Resume(state.zoom, state.op, Head(resps))
         IN  Fed([zoom |-> step.zoom, op |-> step.op, requests |-> state.requests \o step.send],
                 Tail(resps))

\* a call run on its own: what handle_call_tool makes of the tool name, the
\* arguments and the responses to the requests it sends
Alone(tool, args, resps) ==
    LET checked == Validate(tool, args)
    IN  IF ~checked.r.ok
        THEN [zoom |-> checked.zoom, op |-> NoOp, requests |-> <<>>,
              reply |-> ErrorReply(checked.r.exc).val]
        ELSE LET begun == Begin(checked.zoom, Frame(checked.r.val.fn, "call", checked.r.val.a))
                 state == Fed([zoom |-> begun.zoom, op |-> begun.op, requests |-> begun.send],
                              resps)
             IN  [zoom |-> state.zoom, op |-> state.op, requests |-> state.requests,
                  reply |-> IF Finished(state.op) THEN ResultReply(state.op).val ELSE <<>>]

\* the credentials the arguments of a call hold, as the request headers and
\* the token request carry them
OwnAuthorizations(c) ==
    LET kv == arguments[c].kv
    IN  {"Bearer " \o PyStr(ArgGet(kv, "zoom_access_token", None)),
         "Basic " \o Base64(PyStr(ArgGet(kv, "zoom_client_id", None)) \o ":"
                                \o PyStr(ArgGet(kv, "zoom_client_secret", None)))}

\* C12: under every interleaving of the calls in progress, the client a call
\* holds, the requests it has sent and the reply it has returned are those
\* of the same call run on its own with its arguments and the responses to
\* its own requests; every request carries the credentials of the call's own
\* arguments, and a token another call obtained by a refresh is never sent.
C12_CallsDoNotInterfere ==
    \A c \in DOMAIN pc :
        /\ pc[c] \in {"executing", "replied"} =>
                LET alone == Alone(name[c], arguments[c], responses[c])
                IN  /\ zoom[c] = alone.zoom
                    /\ requests[c] = alone.requests
                    /\ pc[c] = "replied" => reply[c] = alone.reply
        /\ \A i \in 1..Len(requests[c]) :
                /\ requests[c][i].authorization \in OwnAuthorizations(c)
                /\ requests[c][i].method = "POST" =>
                        requests[c][i].data.refresh_token
                            = ArgGet(arguments[c].kv, "zoom_refresh_token", None)
                /\ \A d \in DOMAIN pc :
                        d # c /\ zoom[d].exists =>
                            requests[c][i].authorization # "Bearer " \o PyStr(zoom[d].access_token)

\* a refresh call has obtained new tokens and has not replied yet, while a
\* transcript call waits for the download it requested with its own token
C12_Witness ==
    /\ pc[1] = "executing"
    /\ name[1] = "zoom_refresh_token"
    /\ zoom[1].access_token = "at2"
    /\ pc[2] = "executing"
    /\ name[2] = "zoom_get_meeting_transcript"
    /\ op[2].stage = "get_download"
    /\ requests[2][2].authorization = "Bearer at-of-call-2"

\* the HTTP call failed: it raised, or it was answered by another status than 200
Failed(outcome) == ~outcome.ok \/ outcome.val.status_code # 200

\* a JSON object with an error member
ErrorResult(text) == text.fmt = "json" /\ "error" \in DOMAIN text.doc

NoRequestTwice(c) ==
    /\ \A i, j \in 1..Len(requests[c]) : i # j => requests[c][i] # requests[c][j]
    /\ Len(requests[c]) <= Len(responses[c]) + 1

\* C13 as stated: no request of a tool call is issued twice, and a call one
\* of whose HTTP calls failed (the token POST, the recordings GET, the
\* per-meeting GET or a transcript download; a status other than 200 or an
\* exception) ends with one error result.
C13_AnyFailedRequestYieldsError ==
    \A c \in Calls :
        /\ NoRequestTwice(c)
        /\ (pc[c] = "replied" /\ \E i \in 1..Len(responses[c]) : Failed(responses[c][i])) =>
                /\ Len(reply[c]) = 1
                /\ ErrorResult(Body(c))

\* the i-th HTTP call of the call is a transcript download that was answered,
\* by another status than 200
SkippedDownload(c, i) ==
    /\ i > 1
    /\ responses[c][i].ok
    /\ responses[c][i].val.status_code # 200

\* C13 as amended: no request is issued twice and at most one is in flight;
\* a failed token POST, recordings GET or per-meeting GET, and an HTTP call
\* of any kind that raised, is the last request of the call and ends it with
\* one error result; a transcript download answered by another status than
\* 200 is not sent again either, but the call goes on to the next file and,
\* when nothing else fails, ends with status "success".
C13_NoRetryErrorUnlessDownloadSkipped ==
    \A c \in Calls :
        /\ NoRequestTwice(c)
        /\ \A i \in 1..Len(responses[c]) :
                Failed(responses[c][i]) /\ ~SkippedDownload(c, i) =>
                    /\ Len(requests[c]) = i
                    /\ Len(responses[c]) = i
                    /\ op[c].stage = "returned"
                    /\ ErrorResult(op[c].ret)
                    /\ pc[c] = "replied" => Len(reply[c]) = 1 /\ Body(c) = op[c].ret
        /\ (/\ pc[c] = "replied"
            /\ \E i \in 1..Len(responses[c]) : Failed(responses[c][i])
            /\ \A i \in 1..Len(responses[c]) : Failed(responses[c][i]) => SkippedDownload(c, i))
           => /\ Len(reply[c]) = 1
              /\ Body(c).fmt = "json"
              /\ ~ErrorResult(Body(c))
              /\ Body(c).doc.status = "success"
              /\ \A k \in 1..Len(Body(c).doc.transcripts.items) :
                    \E i \in 2..Len(responses[c]) :
                        /\ ~Failed(responses[c][i])
                        /\ Body(c).doc.transcripts.items[k].fields["content"]
                                = JStr(responses[c][i].val.text)

\* a transcript call of two files whose first download was answered 500 and
\* whose second download raised has been answered after three requests
C13_Witness ==
    \E c \in Calls :
        /\ pc[c] = "replied"
        /\ Len(requests[c]) = 3
        /\ SkippedDownload(c, 2)
        /\ ~responses[c][3].ok
        /\ ErrorResult(Body(c))

\* the exception that came up in the operation of the call when its last
\* HTTP call ended (none: the empty set): the one the HTTP call raised, the
\* one response.json() raised, the KeyError of a token body without
\* access_token
RaisedInOperation(c) ==
    LET n == Len(responses[c])
        r == responses[c][n]
    IN  IF n = 0 THEN {}
        ELSE IF ~r.ok THEN {r.exc}
        ELSE IF r.val.status_code # 200 THEN {}
        ELSE IF op[c].fn = "get_meeting_transcript" /\ n > 1 THEN {}
        ELSE IF ~r.val.json.ok THEN {r.val.json.exc}
        ELSE IF op[c].fn = "refresh_access_token" /\ "access_token" \notin DOMAIN r.val.json.val
        THEN {KeyError("access_token")}
        ELSE {}

\* C14 as stated: an exception that comes up while one of the four
\* operations runs does not leave the operation, which returns the JSON
\* object whose only member is error, the message of the exception.
C14_ExceptionBecomesErrorMessageOnly ==
    \A c \in Calls :
        \A e \in RaisedInOperation(c) :
            /\ op[c].stage = "returned"
            /\ op[c].ret.fmt = "json"
            /\ DOMAIN op[c].ret.doc = {"error"}
            /\ op[c].ret.doc.error = e.msg

\* C14 as amended: an exception that comes up in list_recordings,
\* get_recording_details or get_meeting_transcript does not leave the
\* operation; a requests exception is returned by _handle_token_refresh as
\* {error: "Request to Zoom API failed", details: message} (error: "Zoom API
\* error: <code>" when it carries a response), any other exception by the
\* outer except clause as {error: message} without status; an exception that
\* comes up in the try block of refresh_access_token is returned as
\* {error: message, status: "error"}.  No request follows the exception.
C14_ExceptionBecomesErrorObject ==
    \A c \in Calls :
        /\ op[c].stage = "raised" => op[c].fn \notin ResourceOperations
        /\ \A e \in RaisedInOperation(c) :
            /\ op[c].stage = "returned"
            /\ op[c].ret.fmt = "json"
            /\ Len(requests[c]) = Len(responses[c])
            /\ IF op[c].fn = "refresh_access_token"
               THEN /\ DOMAIN op[c].ret.doc = {"error", "status"}
                    /\ op[c].ret.doc.error = e.msg
                    /\ op[c].ret.doc.status = "error"
               ELSE IF e.request_exc
               THEN /\ DOMAIN op[c].ret.doc = {"error", "details"}
                    /\ op[c].ret.doc.details = e.msg
                    /\ op[c].ret.doc.error =
                            IF e.response_status = 0 THEN "Request to Zoom API failed"
                            ELSE "Zoom API error: " \o ToString(e.response_status)
               ELSE /\ DOMAIN op[c].ret.doc = {"error"}
                    /\ op[c].ret.doc.error = e.msg

\* a list call whose GET was refused has been answered with the object of
\* _handle_token_refresh
C14_Witness ==
    \E c \in Calls :
        /\ pc[c] = "replied"
        /\ name[c] = "zoom_list_recordings"
        /\ RaisedInOperation(c) = {RequestException("ConnectionError", "Connection refused", 0)}
        /\ Body(c) = json_dumps([error |-> "Request to Zoom API failed",
                                 details |-> "Connection refused"])

\* the files of the decoded body of the first GET that are typed TRANSCRIPT
\* and carry a download URL, in the order of the file list
DownloadableTranscripts(c) ==
    LET data == responses[c][1].val.json.val
        files == IF "recording_files" \in DOMAIN data.fields
                 THEN data.fields["recording_files"].items
                 ELSE <<>>
    IN  SelectSeq(files, LAMBDA file :
                    /\ "file_type" \in DOMAIN file.fields
                    /\ file.fields["file_type"] = JStr("TRANSCRIPT")
                    /\ "download_url" \in DOMAIN file.fields)

\* one entry for each of the files whose download was answered 200, in order
RECURSIVE ExpectedTranscripts(_, _)
ExpectedTranscripts(files, downloads) ==
    IF files = <<>> \/ downloads = <<>> THEN <<>>
    ELSE (IF Head(downloads).val.status_code = 200
          THEN <<JDict([file_id |-> Head(files).fields["id"],
                        file_name |-> Head(files).fields["file_name"],
                        recording_start |-> Head(files).fields["recording_start"],
                        recording_end |-> Head(files).fields["recording_end"],
                        content |-> JStr(Head(downloads).val.text)])>>
          ELSE <<>>)
         \o ExpectedTranscripts(Tail(files), Tail(downloads))

\* C15: when the first GET of get_meeting_transcript is answered 200 with a
\* body that has a file typed TRANSCRIPT and no HTTP call raises, the k-th
\* download request goes to the URL of the k-th TRANSCRIPT file that carries
\* one, so that each such file is requested exactly once, and the operation
\* returns status "success" with one transcript entry (id, name, start, end,
\* body text) per file whose download was answered 200, in file order, and
\* nothing for the other files; the list may be empty.
C15_TranscriptsAreTheFetchedFiles ==
    \A c \in Calls :
        (/\ FirstGetFound(c)
         /\ ~NoTranscriptEntry(responses[c][1].val.json.val)
         /\ \A i \in 1..Len(responses[c]) : responses[c][i].ok)
        => LET files == DownloadableTranscripts(c)
           IN  /\ Len(requests[c]) <= 1 + Len(files)
               /\ \A k \in 2..Len(requests[c]) :
                    /\ requests[c][k].method = "GET"
                    /\ requests[c][k].url = files[k - 1].fields["download_url"].s
               /\ Len(responses[c]) = 1 + Len(files) <=> Finished(op[c])
               /\ Finished(op[c]) =>
                    /\ op[c].stage = "returned"
                    /\ op[c].ret.fmt = "json"
                    /\ DOMAIN op[c].ret.doc
                            = {"meeting_id", "topic", "meeting_duration", "transcripts", "status"}
                    /\ op[c].ret.doc.status = "success"
                    /\ op[c].ret.doc.transcripts
                            = JList(ExpectedTranscripts(files, Tail(responses[c])))

\* of two transcript files, the download of the first was answered by
\* another status than 200 and the second by 200: one entry, of the second
C15_Witness ==
    \E c \in Calls :
        /\ FirstGetFound(c)
        /\ Finished(op[c])
        /\ Len(responses[c]) = 3
        /\ responses[c][2].ok /\ responses[c][2].val.status_code # 200
        /\ responses[c][3].ok /\ responses[c][3].val.status_code = 200
        /\ op[c].ret.doc.status = "success"
        /\ Len(op[c].ret.doc.transcripts.items) = 1
        /\ op[c].ret.doc.transcripts.items[1].fields["file_id"] = JStr("f2")

====
